---- MODULE Spec2Model ----
(***************************************************************************)
(* Cart -> Order transition and stock reservation of the e-commerce REST   *)
(* API (order and cart controllers).  Every handler is an async function:  *)
(* each `await` on the persistence layer is one atomic step and the steps  *)
(* of different requests interleave.  A step is the database operation     *)
(* followed by the synchronous code up to the next await.                  *)
(***************************************************************************)
EXTENDS Integers, Sequences, FiniteSets, TLC

\* ------------------------------------------------------------- bounds
MaxOrderWrites == 3  \* orders created plus status changes saved in one behaviour
MaxFaults == 1       \* persistence writes that fail in one behaviour
InitStock == 2       \* stock of every product in the initial catalog
MaxCartWrites == 2   \* saves of one cart by the cart handlers in one behaviour

\* ------------------------------------------------------------- universe
Products == {"P", "Q"}
Price(p) == IF p = "P" THEN 10 ELSE 20
NoVariant == "undefined"
Variants == {NoVariant, "v1"}

NoUser == "null"                  \* req.user absent / order.user null
NoSession == "undefined"          \* no sessionId in the request body
Users == {"alice", "bob", "admin"}
Role(u) == IF u = "admin" THEN "admin" ELSE "customer"
\* the identities that shop: an authenticated user, a guest with a session
\* id, and a guest that sends no session id
Callers ==
  { [user |-> "alice", sid |-> NoSession],
    [user |-> NoUser, sid |-> "s1"],
    [user |-> NoUser, sid |-> NoSession] }
CartKeys == {"alice", "s1"}
NoKey == "none"
NoNote == "undefined"
Notes == {NoNote}
GivenNotes == {NoNote, "left the warehouse"}
Statuses == {"pending", "processing", "shipped", "cancelled"}
Slots == {1, 2}

VARIABLES
  catalog,   \* ids of the Product documents that exist
  stock,     \* Product.stock of every product id
  carts,     \* Cart documents, by the user id or session id they are keyed on
  orders,    \* Order documents, the order id is the position
  req,       \* the requests in flight: handler, position, local variables
  faults,    \* persistence writes that have failed so far
  last       \* the request that completed in the last step, if one did

vars == <<catalog, stock, carts, orders, req, faults, last>>

\* ------------------------------------------------------------- helpers
Max(a, b) == IF a >= b THEN a ELSE b

RECURSIVE SumSeq(_)
SumSeq(s) == IF s = <<>> THEN 0 ELSE Head(s) + SumSeq(Tail(s))

\* total quantity of product p over a sequence of line items
QtyOf(items, p) ==
  SumSeq([k \in 1..Len(items) |->
            IF items[k].product = p THEN items[k].quantity ELSE 0])

IsPrefix(s, t) == Len(s) <= Len(t) /\ SubSeq(t, 1, Len(s)) = s

\* no cart document.  `v` is the version key of the document; `nid` counts the
\* items ever pushed and stands for the fresh _id every pushed item gets;
\* `saves` counts the saves of the cart handlers and is bookkeeping
NoCart ==
  [exists |-> FALSE, v |-> 0, nid |-> 0, saves |-> 0, items |-> <<>>, appliedCoupons |-> <<>>,
   subtotal |-> 0, discountTotal |-> 0, taxTotal |-> 0, shippingTotal |-> 0,
   grandTotal |-> 0]

EmptySnap ==
  [ok |-> FALSE, catalog |-> {}, stock |-> [p \in Products |-> 0],
   carts |-> [k \in CartKeys |-> NoCart], orders |-> <<>>]

Snapshot ==
  [ok |-> TRUE, catalog |-> catalog, stock |-> stock, carts |-> carts,
   orders |-> orders]

Idle ==
  [op |-> "idle", pc |-> "idle", user |-> NoUser, key |-> NoKey,
   cart |-> NoCart, live |-> {}, i |-> 0, oid |-> 0, items |-> <<>>,
   was |-> "", status |-> "", note |-> "", product |-> "", variant |-> "",
   quantity |-> 0, index |-> 0, item |-> 0, setq |-> FALSE, sfl |-> "undefined",
   pre |-> EmptySnap]

NoLast ==
  [op |-> "none", result |-> "", user |-> NoUser, key |-> NoKey, oid |-> 0,
   status |-> "", note |-> "", item |-> 0, setq |-> FALSE, quantity |-> 0,
   faulted |-> FALSE, pre |-> EmptySnap]

\* a request may start in a free slot
CanStart(s) == req[s].op = "idle"

\* the snapshot a request starts with: the database as it is when no other
\* request is in flight (the request then runs alone until another starts)
PreAtStart(s) ==
  IF \A t \in Slots \ {s} : req[t].op = "idle" THEN Snapshot ELSE EmptySnap

\* request s moves to r; every other request in flight is no longer alone
Moved(s, r) ==
  [t \in Slots |-> IF t = s THEN r ELSE [req[t] EXCEPT !.pre = EmptySnap]]

\* request s continues as r
Continue(s, r) ==
  /\ req' = Moved(s, r)
  /\ last' = NoLast

\* request s, in state r, answers with `result` and ends
Finish(s, r, result, faulted) ==
  /\ req' = Moved(s, Idle)
  /\ last' = [op |-> r.op, result |-> result, user |-> r.user, key |-> r.key,
              oid |-> r.oid, status |-> r.status, note |-> r.note,
              item |-> r.item, setq |-> r.setq, quantity |-> r.quantity,
              faulted |-> faulted, pre |-> r.pre]

\* the cart key a caller's query resolves to (query.user or query.sessionId)
CartKey(c) ==
  IF c.user # NoUser THEN c.user
  ELSE IF c.sid # NoSession THEN c.sid ELSE NoKey

\* ------------------------------------------------------------- cart totals
\* sum of unitPrice x quantity over the items not saved for later
Subtotal(items) ==
  SumSeq([k \in 1..Len(items) |->
            IF items[k].savedForLater THEN 0
            ELSE items[k].price * items[k].quantity])

\* the externally supplied policies; no coupon, tax or shipping rule is part
\* of the controllers
DiscountPolicy(coupons, subtotal) == 0
TaxPolicy(base) == 0
ShippingPolicy(items) == 0

\* cart.recalculateTotals()
RecalculateTotals(cart) ==
  LET sub == Subtotal(cart.items)
      disc == DiscountPolicy(cart.appliedCoupons, sub)
      tax == TaxPolicy(sub - disc)
      ship == ShippingPolicy(cart.items)
  IN [cart EXCEPT !.subtotal = sub, !.discountTotal = disc, !.taxTotal = tax,
                  !.shippingTotal = ship,
                  !.grandTotal = Max(0, sub - disc + tax + ship)]

\* document.save() sends the paths whose value the handler changed: a total
\* the handler left at the value it read is not written
WriteTotals(db, read, local) ==
  [db EXCEPT
     !.subtotal = IF local.subtotal # read.subtotal THEN local.subtotal ELSE @,
     !.discountTotal =
        IF local.discountTotal # read.discountTotal THEN local.discountTotal ELSE @,
     !.taxTotal = IF local.taxTotal # read.taxTotal THEN local.taxTotal ELSE @,
     !.shippingTotal =
        IF local.shippingTotal # read.shippingTotal THEN local.shippingTotal ELSE @,
     !.grandTotal =
        IF local.grandTotal # read.grandTotal THEN local.grandTotal ELSE @]

\* ------------------------------------------------------------- faults
\* the awaited write of request s rejects; the catch block hands the error to
\* next() and nothing of the write is applied
WritePcs == {"saveOrder", "decrement", "saveCart", "restore"}

WriteFails(s) ==
  /\ req[s].pc \in WritePcs
  /\ faults < MaxFaults
  /\ faults' = faults + 1
  /\ Finish(s, req[s], "Error", TRUE)
  /\ UNCHANGED <<catalog, stock, carts, orders>>

\* ------------------------------------------------------------- addToCart
\* cart.items.findIndex(...): first item of the product whose variant matches,
\* any variant when the request names none; 0 when there is none
ExistingItemIndex(items, productId, variantId) ==
  LET hits == {k \in 1..Len(items) :
                 /\ items[k].product = productId
                 /\ (variantId = NoVariant \/ items[k].variant = variantId)}
  IN IF hits = {} THEN 0 ELSE CHOOSE k \in hits : \A j \in hits : k <= j

NewItem(r, id) ==
  [id |-> id, product |-> r.product, variant |-> r.variant,
   quantity |-> r.quantity, price |-> Price(r.product), savedForLater |-> FALSE]

\* the cart document of request r after the in-memory changes of addToCart
AddedCart(r) ==
  RecalculateTotals(
    IF r.index > 0
    THEN [r.cart EXCEPT !.items[r.index].quantity = @ + r.quantity]
    ELSE [r.cart EXCEPT !.items = Append(@, NewItem(r, r.cart.nid + 1)),
                        !.nid = @ + 1])

\* saves of the cart of key k by the cart handlers, those under way included
CartOps == {"addToCart", "updateCartItem", "removeFromCart", "clearCart"}
CartWrites(k) ==
  carts[k].saves
    + Cardinality({t \in Slots : req[t].op \in CartOps /\ req[t].key = k})

CanSave(k) == CartWrites(k) < MaxCartWrites

Saved(cart) == [cart EXCEPT !.saves = @ + 1]

\* Product.findById, the stock check and the identity check
AddToCart(s, c, productId, variantId, quantity) ==
  /\ CanStart(s)
  /\ LET r == [Idle EXCEPT !.op = "addToCart", !.user = c.user,
                           !.key = CartKey(c), !.product = productId,
                           !.variant = variantId, !.quantity = quantity,
                           !.pre = PreAtStart(s)]
     IN IF productId \notin catalog THEN Finish(s, r, "NotFound", FALSE)
        ELSE IF stock[productId] < quantity
          THEN Finish(s, r, "InsufficientStock", FALSE)
        ELSE IF CartKey(c) = NoKey
          THEN Finish(s, r, "SessionRequired", FALSE)
        ELSE /\ CanSave(r.key)
             /\ Continue(s, [r EXCEPT !.pc = "findCart"])
  /\ UNCHANGED <<catalog, stock, carts, orders, faults>>

\* Cart.findOne(query), or a new cart; then the in-memory update
AddFindCart(s) ==
  /\ req[s].op = "addToCart" /\ req[s].pc = "findCart"
  /\ LET r == req[s]
         cart == carts[r.key]
     IN Continue(s, [r EXCEPT !.pc = "saveCart", !.cart = cart,
                       !.index = ExistingItemIndex(cart.items, r.product, r.variant)])
  /\ UNCHANGED <<catalog, stock, carts, orders, faults>>

\* cart.save(): an insert for a new cart, else the changed paths.  A pushed
\* item is appended to the stored array and increments the version; a
\* quantity set by position requires the version that was read.
AddSavedCart(db, r) ==
  LET local == AddedCart(r)
  IN IF ~r.cart.exists
     THEN [local EXCEPT !.exists = TRUE]
     ELSE IF r.index = 0
     THEN [WriteTotals(db, r.cart, local) EXCEPT
             !.items = Append(@, NewItem(r, db.nid + 1)), !.nid = @ + 1,
             !.v = @ + 1]
     ELSE [WriteTotals(db, r.cart, local) EXCEPT
             !.items[r.index].quantity = local.items[r.index].quantity]

AddSaveRejected(db, r) ==
  \/ ~r.cart.exists /\ db.exists           \* the key already has a cart
  \/ r.cart.exists /\ r.index > 0 /\ db.v # r.cart.v   \* VersionError

AddSaveCart(s) ==
  /\ req[s].op = "addToCart" /\ req[s].pc = "saveCart"
  /\ LET r == req[s]
         db == carts[r.key]
     IN IF AddSaveRejected(db, r)
        THEN /\ Finish(s, r, "Error", FALSE)
             /\ UNCHANGED carts
        ELSE /\ carts' = [carts EXCEPT ![r.key] = Saved(AddSavedCart(db, r))]
             /\ Finish(s, r, "Added", FALSE)
  /\ UNCHANGED <<catalog, stock, orders, faults>>


\* ------------------------------------------------------------- updateCartItem
NoFlag == "undefined"             \* savedForLater absent from the request body
Flags == {NoFlag, "true", "false"}

\* cart.items.findIndex((item) => item._id.toString() === itemId); 0 for none
ItemIndex(items, itemId) ==
  LET hits == {k \in 1..Len(items) : items[k].id = itemId}
  IN IF hits = {} THEN 0 ELSE CHOOSE k \in hits : \A j \in hits : k <= j

\* items.splice(k, 1)
Splice(items, k) ==
  [j \in 1..(Len(items) - 1) |-> IF j < k THEN items[j] ELSE items[j + 1]]

\* the request removes the item: a quantity is given and it is <= 0
Removes(r) == r.setq /\ r.quantity <= 0

\* the items after the `quantity !== undefined` block
QuantityApplied(r) ==
  IF ~r.setq THEN r.cart.items
  ELSE IF r.quantity <= 0 THEN Splice(r.cart.items, r.index)
  ELSE [r.cart.items EXCEPT ![r.index].quantity = r.quantity]

\* `cart.items[itemIndex].savedForLater = savedForLater` after a splice of the
\* last item: cart.items[itemIndex] is undefined and the assignment throws
UpdateThrows(r) ==
  r.sfl # NoFlag /\ r.index > Len(QuantityApplied(r))

\* the cart document of request r after the in-memory changes of
\* updateCartItem; the flag goes to the item that is at itemIndex then
UpdatedCart(r) ==
  LET items == QuantityApplied(r)
  IN RecalculateTotals(
       [r.cart EXCEPT !.items =
          IF r.sfl = NoFlag THEN items
          ELSE [items EXCEPT ![r.index].savedForLater = (r.sfl = "true")]])

\* cart.save() of a document whose items changed in memory: a splice or an
\* assignment of the array sets it as a whole and increments the version, an
\* assignment to a field of an item is a set by position; both require the
\* version that was read
SavedItems(db, read, local, whole) ==
  IF local.items = read.items THEN db
  ELSE IF whole THEN [db EXCEPT !.items = local.items, !.v = @ + 1]
  ELSE [db EXCEPT !.items =
          [k \in 1..Len(@) |->
             [@[k] EXCEPT
                !.quantity = IF local.items[k].quantity # read.items[k].quantity
                             THEN local.items[k].quantity ELSE @,
                !.savedForLater =
                   IF local.items[k].savedForLater # read.items[k].savedForLater
                   THEN local.items[k].savedForLater ELSE @]]]

\* VersionError: the items changed in memory and the stored version is not
\* the version that was read
SaveRejected(db, read, local) ==
  local.items # read.items /\ db.v # read.v

UpdateSavedCart(db, r) ==
  LET local == UpdatedCart(r)
  IN WriteTotals(SavedItems(db, r.cart, local, Removes(r)), r.cart, local)

\* the identity check, Cart.findOne(query), findIndex, and the code up to the
\* next await: Product.findById when a positive quantity is given, else
\* cart.save()
UpdateCartItem(s, c, itemId, setq, quantity, sfl) ==
  /\ CanStart(s)
  /\ LET r == [Idle EXCEPT !.op = "updateCartItem", !.user = c.user,
                           !.key = CartKey(c), !.item = itemId, !.setq = setq,
                           !.quantity = quantity, !.sfl = sfl,
                           !.pre = PreAtStart(s)]
     IN IF CartKey(c) = NoKey THEN Finish(s, r, "SessionRequired", FALSE)
        ELSE IF ~carts[r.key].exists THEN Finish(s, r, "NotFound", FALSE)
        ELSE LET q == [r EXCEPT !.cart = carts[r.key],
                         !.index = ItemIndex(carts[r.key].items, itemId)]
             IN IF q.index = 0 THEN Finish(s, q, "ItemNotFound", FALSE)
                ELSE IF setq /\ quantity > 0
                  THEN /\ CanSave(r.key)
                       /\ Continue(s, [q EXCEPT !.pc = "findProduct"])
                ELSE IF UpdateThrows(q) THEN Finish(s, q, "Error", FALSE)
                ELSE /\ CanSave(r.key)
                     /\ Continue(s, [q EXCEPT !.pc = "saveCart"])
  /\ UNCHANGED <<catalog, stock, carts, orders, faults>>

\* Product.findById(cart.items[itemIndex].product) and the stock check
UpdateFindProduct(s) ==
  /\ req[s].op = "updateCartItem" /\ req[s].pc = "findProduct"
  /\ LET r == req[s]
         p == r.cart.items[r.index].product
     IN IF p \notin catalog \/ stock[p] < r.quantity
        THEN Finish(s, r, "InsufficientStock", FALSE)
        ELSE Continue(s, [r EXCEPT !.pc = "saveCart"])
  /\ UNCHANGED <<catalog, stock, carts, orders, faults>>

\* cart.save(), then cart.populate(...), which reads only
UpdateSaveCart(s) ==
  /\ req[s].op = "updateCartItem" /\ req[s].pc = "saveCart"
  /\ LET r == req[s]
         db == carts[r.key]
     IN IF SaveRejected(db, r.cart, UpdatedCart(r))
        THEN /\ Finish(s, r, "Error", FALSE)
             /\ UNCHANGED carts
        ELSE /\ carts' = [carts EXCEPT ![r.key] = Saved(UpdateSavedCart(db, r))]
             /\ Finish(s, r, "Updated", FALSE)
  /\ UNCHANGED <<catalog, stock, orders, faults>>

\* ------------------------------------------------------------- removeFromCart
\* cart.items.filter((item) => item._id.toString() !== itemId)
WithoutItem(items, itemId) ==
  LET k == ItemIndex(items, itemId)
  IN IF k = 0 THEN items ELSE Splice(items, k)

\* the cart document after the in-memory changes of removeFromCart
RemovedCart(r) ==
  RecalculateTotals([r.cart EXCEPT !.items = WithoutItem(@, r.item)])

RemoveSavedCart(db, r) ==
  LET local == RemovedCart(r)
  IN WriteTotals(SavedItems(db, r.cart, local, TRUE), r.cart, local)

\* the identity check, Cart.findOne(query) and the in-memory change
RemoveFromCart(s, c, itemId) ==
  /\ CanStart(s)
  /\ LET r == [Idle EXCEPT !.op = "removeFromCart", !.user = c.user,
                           !.key = CartKey(c), !.item = itemId,
                           !.pre = PreAtStart(s)]
     IN IF CartKey(c) = NoKey THEN Finish(s, r, "SessionRequired", FALSE)
        ELSE IF ~carts[r.key].exists THEN Finish(s, r, "NotFound", FALSE)
        ELSE /\ CanSave(r.key)
             /\ Continue(s, [r EXCEPT !.pc = "saveCart", !.cart = carts[r.key]])
  /\ UNCHANGED <<catalog, stock, carts, orders, faults>>

RemoveSaveCart(s) ==
  /\ req[s].op = "removeFromCart" /\ req[s].pc = "saveCart"
  /\ LET r == req[s]
         db == carts[r.key]
     IN IF SaveRejected(db, r.cart, RemovedCart(r))
        THEN /\ Finish(s, r, "Error", FALSE)
             /\ UNCHANGED carts
        ELSE /\ carts' = [carts EXCEPT ![r.key] = Saved(RemoveSavedCart(db, r))]
             /\ Finish(s, r, "Removed", FALSE)
  /\ UNCHANGED <<catalog, stock, orders, faults>>

\* ------------------------------------------------------------- createOrder
DefaultStatus == "pending"      \* the status of an order that sets none

\* cart.items.map(...): the order line items
OrderItems(items) ==
  [k \in 1..Len(items) |->
     [product |-> items[k].product, variant |-> items[k].variant,
      price |-> items[k].price, quantity |-> items[k].quantity,
      subtotal |-> items[k].price * items[k].quantity]]

\* an order whose totals are computed from the items of the cart
NewOrder_Recomputed(r) ==
  LET fresh == RecalculateTotals(r.cart)
  IN [user |-> r.user,
      items |-> OrderItems(r.cart.items),
      subtotal |-> fresh.subtotal,
      discountTotal |-> fresh.discountTotal,
      taxTotal |-> fresh.taxTotal,
      shippingTotal |-> fresh.shippingTotal,
      grandTotal |-> fresh.grandTotal,
      appliedCoupons |-> r.cart.appliedCoupons,
      status |-> DefaultStatus,
      statusHistory |-> <<[status |-> "pending", note |-> "Order created"]>>,
      writer |-> "createOrder"]

\* new Order({...}) of request r, from the cart it read.  `writer` records
\* the handler that saved the status last; it is bookkeeping, no field of the
\* document
NewOrder(r) ==
  [user |-> r.user,
   items |-> OrderItems(r.cart.items),
   subtotal |-> r.cart.subtotal,
   discountTotal |-> r.cart.discountTotal,
   taxTotal |-> r.cart.taxTotal,
   shippingTotal |-> r.cart.shippingTotal,
   grandTotal |-> r.cart.grandTotal,
   appliedCoupons |-> r.cart.appliedCoupons,
   status |-> DefaultStatus,
   statusHistory |-> <<[status |-> "pending", note |-> "Order created"]>>,
   writer |-> "createOrder"]

\* status changes saved so far, over all orders
TransitionsOf(os) ==
  SumSeq([o \in 1..Len(os) |-> Len(os[o].statusHistory) - 1])

\* orders created and status changes saved, those under way included
OrderWrites ==
  Len(orders) + TransitionsOf(orders)
    + Cardinality({t \in Slots : req[t].pc \in {"validate", "saveOrder"}})

CanWrite == OrderWrites < MaxOrderWrites

\* Cart.findOne(query).populate("items.product") and the empty-cart check
CreateOrder(s, c) ==
  /\ CanStart(s)
  /\ LET r == [Idle EXCEPT !.op = "createOrder", !.user = c.user,
                           !.key = CartKey(c), !.pre = PreAtStart(s)]
     IN IF CartKey(c) = NoKey THEN Finish(s, r, "SessionRequired", FALSE)
        ELSE IF ~carts[r.key].exists \/ Len(carts[r.key].items) = 0
          THEN Finish(s, r, "CartEmpty", FALSE)
        ELSE /\ CanWrite
             /\ Continue(s, [r EXCEPT !.pc = "validate", !.i = 1,
                               !.cart = carts[r.key], !.live = catalog])
  /\ UNCHANGED <<catalog, stock, carts, orders, faults>>

\* a validation that only looks the product up
StockSuffices_FoundOnly(r, k) ==
  LET item == r.cart.items[k]
  IN item.product \in r.live /\ item.product \in catalog

\* the product of item k is found and has the stock the item asks for
StockSuffices(r, k) ==
  LET item == r.cart.items[k]
  IN /\ item.product \in r.live
     /\ item.product \in catalog
     /\ stock[item.product] >= item.quantity

\* one turn of the validation loop: Product.findById and the stock test
ValidateStock(s) ==
  /\ req[s].op = "createOrder" /\ req[s].pc = "validate"
  /\ LET r == req[s]
     IN IF ~StockSuffices(r, r.i) THEN Finish(s, r, "InsufficientStock", FALSE)
        ELSE IF r.i < Len(r.cart.items) THEN Continue(s, [r EXCEPT !.i = @ + 1])
        ELSE Continue(s, [r EXCEPT !.pc = "saveOrder", !.i = 0])
  /\ UNCHANGED <<catalog, stock, carts, orders, faults>>

\* order.save()
SaveOrder(s) ==
  /\ req[s].op = "createOrder" /\ req[s].pc = "saveOrder"
  /\ orders' = Append(orders, NewOrder(req[s]))
  /\ Continue(s, [req[s] EXCEPT !.pc = "decrement", !.i = 1,
                    !.oid = Len(orders) + 1])
  /\ UNCHANGED <<catalog, stock, carts, faults>>

\* Product.findByIdAndUpdate(id, {$inc: {stock: delta}}): nothing when the
\* product is gone
IncStock(st, p, delta) ==
  IF p \in catalog THEN [st EXCEPT ![p] = @ + delta] ELSE st

\* a decrement of one unit whatever the quantity
DecrementedStock_ByOne(r, k) ==
  IncStock(stock, r.cart.items[k].product, -1)

\* the stock after the decrement of cart item k
DecrementedStock(r, k) ==
  IncStock(stock, r.cart.items[k].product, -r.cart.items[k].quantity)

\* one turn of the decrement loop
DecrementStock(s) ==
  /\ req[s].op = "createOrder" /\ req[s].pc = "decrement"
  /\ LET r == req[s]
     IN /\ stock' = DecrementedStock(r, r.i)
        /\ IF r.i < Len(r.cart.items) THEN Continue(s, [r EXCEPT !.i = @ + 1])
           ELSE Continue(s, [r EXCEPT !.pc = "saveCart", !.i = 0])
  /\ UNCHANGED <<catalog, carts, orders, faults>>

\* the cart document after `cart.items = []` ... `cart.grandTotal = 0`
ClearedCart(cart) ==
  [cart EXCEPT !.items = <<>>, !.appliedCoupons = <<>>, !.subtotal = 0,
               !.discountTotal = 0, !.taxTotal = 0, !.shippingTotal = 0,
               !.grandTotal = 0]

\* cart.save() of a cleared cart: the array is set as a whole, which requires
\* the version that was read and increments it
ClearSavedCart(db, read) ==
  [WriteTotals(db, read, ClearedCart(read)) EXCEPT
     !.items = <<>>, !.appliedCoupons = <<>>, !.v = @ + 1]

ClearCartSave(s) ==
  /\ req[s].op = "createOrder" /\ req[s].pc = "saveCart"
  /\ LET r == req[s]
         db == carts[r.key]
     IN IF db.v # r.cart.v
        THEN /\ Finish(s, r, "Error", FALSE)        \* VersionError
             /\ UNCHANGED carts
        ELSE /\ carts' = [carts EXCEPT ![r.key] = ClearSavedCart(db, r.cart)]
             /\ Finish(s, r, "Created", FALSE)
  /\ UNCHANGED <<catalog, stock, orders, faults>>

\* ------------------------------------------------------------- clearCart
\* the identity check, Cart.findOne(query) and the in-memory change
ClearCart(s, c) ==
  /\ CanStart(s)
  /\ LET r == [Idle EXCEPT !.op = "clearCart", !.user = c.user,
                           !.key = CartKey(c), !.pre = PreAtStart(s)]
     IN IF CartKey(c) = NoKey THEN Finish(s, r, "SessionRequired", FALSE)
        ELSE IF ~carts[r.key].exists THEN Finish(s, r, "NotFound", FALSE)
        ELSE /\ CanSave(r.key)
             /\ Continue(s, [r EXCEPT !.pc = "saveCart", !.cart = carts[r.key]])
  /\ UNCHANGED <<catalog, stock, carts, orders, faults>>

\* cart.save(): an array that was empty when read is not written
ClearSave(s) ==
  /\ req[s].op = "clearCart" /\ req[s].pc = "saveCart"
  /\ LET r == req[s]
         db == carts[r.key]
         local == ClearedCart(r.cart)
     IN IF SaveRejected(db, r.cart, local)
        THEN /\ Finish(s, r, "Error", FALSE)
             /\ UNCHANGED carts
        ELSE /\ carts' = [carts EXCEPT ![r.key] =
                            Saved(IF local.items = r.cart.items
                                  THEN WriteTotals(db, r.cart, local)
                                  ELSE ClearSavedCart(db, r.cart))]
             /\ Finish(s, r, "Cleared", FALSE)
  /\ UNCHANGED <<catalog, stock, orders, faults>>

\* ------------------------------------------------------------- status changes
\* order.save() after `order.status = status; order.statusHistory.push(entry)`:
\* the entry is pushed onto the stored array, and the status is written when
\* it differs from the status that was read (save() sends changed paths only)
SavedStatus(order, was, status, note, by) ==
  [order EXCEPT !.status = IF status # was THEN status ELSE @,
                !.statusHistory = Append(@, [status |-> status, note |-> note]),
                !.writer = by]

\* ------------------------------------------------------------- updateOrderStatus
\* a note that is the default whatever the request gives
UpdateNote_DefaultOnly(status, note) == "Status updated to " \o status

\* note || `Status updated to ${status}`
UpdateNote(status, note) ==
  IF note = NoNote THEN "Status updated to " \o status ELSE note

\* Order.findById and the in-memory change
UpdateOrderStatus(s, oid, status, note) ==
  /\ CanStart(s)
  /\ LET r == [Idle EXCEPT !.op = "updateOrderStatus", !.user = "admin",
                           !.oid = oid, !.pre = PreAtStart(s)]
     IN IF oid \notin 1..Len(orders) THEN Finish(s, r, "NotFound", FALSE)
        ELSE /\ CanWrite
             /\ Continue(s, [r EXCEPT !.pc = "saveOrder", !.status = status,
                               !.note = note, !.was = orders[oid].status])
  /\ UNCHANGED <<catalog, stock, carts, orders, faults>>

UpdateSave(s) ==
  /\ req[s].op = "updateOrderStatus" /\ req[s].pc = "saveOrder"
  /\ LET r == req[s]
     IN /\ orders' = [orders EXCEPT ![r.oid] =
                        SavedStatus(@, r.was, r.status,
                                    UpdateNote(r.status, r.note),
                                    "updateOrderStatus")]
        /\ Finish(s, r, "Updated", FALSE)
  /\ UNCHANGED <<catalog, stock, carts, faults>>

\* ------------------------------------------------------------- cancelOrder
\* the ownership check: the requester is no admin and the order has an owner
\* that is someone else
NotAuthorized(user, order) ==
  Role(user) # "admin" /\ order.user # NoUser /\ order.user # user

\* a status check that lets a cancelled order through
Cancellable_AlsoCancelled(order) ==
  order.status \in {"pending", "processing", "cancelled"}

\* a status check that rejects cancelled orders only
Cancellable_UnlessCancelled(order) == order.status # "cancelled"

\* ["pending", "processing"].includes(order.status)
Cancellable(order) == order.status \in {"pending", "processing"}

\* reason || "Order cancelled by user"
CancelNote(reason) ==
  IF reason = NoNote THEN "Order cancelled by user" ELSE reason

\* Order.findById, the ownership check, the status check, the in-memory change
CancelOrder(s, user, oid, reason) ==
  /\ CanStart(s)
  /\ LET r == [Idle EXCEPT !.op = "cancelOrder", !.user = user, !.oid = oid,
                           !.status = "cancelled", !.note = reason,
                           !.pre = PreAtStart(s)]
     IN IF oid \notin 1..Len(orders) THEN Finish(s, r, "NotFound", FALSE)
        ELSE IF NotAuthorized(user, orders[oid]) THEN Finish(s, r, "Forbidden", FALSE)
        ELSE IF ~Cancellable(orders[oid])
          THEN Finish(s, r, "InvalidTransition", FALSE)
        ELSE /\ CanWrite
             /\ Continue(s, [r EXCEPT !.pc = "saveOrder",
                               !.was = orders[oid].status,
                               !.items = orders[oid].items])
  /\ UNCHANGED <<catalog, stock, carts, orders, faults>>

CancelSave(s) ==
  /\ req[s].op = "cancelOrder" /\ req[s].pc = "saveOrder"
  /\ LET r == req[s]
     IN /\ orders' = [orders EXCEPT ![r.oid] =
                        SavedStatus(@, r.was, r.status, CancelNote(r.note),
                                    "cancelOrder")]
        /\ Continue(s, [r EXCEPT !.pc = "restore", !.i = 1])
  /\ UNCHANGED <<catalog, stock, carts, faults>>

\* a restoration of one unit whatever the quantity
RestoredStock_ByOne(r, k) ==
  IncStock(stock, r.items[k].product, 1)

\* the stock after the restoration of order item k
RestoredStock(r, k) ==
  IncStock(stock, r.items[k].product, r.items[k].quantity)

\* one turn of the restore loop
RestoreStock(s) ==
  /\ req[s].op = "cancelOrder" /\ req[s].pc = "restore"
  /\ LET r == req[s]
     IN /\ stock' = RestoredStock(r, r.i)
        /\ IF r.i < Len(r.items) THEN Continue(s, [r EXCEPT !.i = @ + 1])
           ELSE Finish(s, r, "Cancelled", FALSE)
  /\ UNCHANGED <<catalog, carts, orders, faults>>

\* ------------------------------------------------------------- deleteProduct
\* Product.findByIdAndDelete: a request of one step.  The document is gone;
\* its stock entry is kept at 0 and never read
DeleteProduct(p) ==
  /\ p \in catalog
  /\ catalog' = catalog \ {p}
  /\ stock' = [stock EXCEPT ![p] = 0]
  /\ req' = [t \in Slots |-> [req[t] EXCEPT !.pre = EmptySnap]]
  /\ last' = NoLast
  /\ UNCHANGED <<carts, orders, faults>>

\* ------------------------------------------------------------- initial carts
\* the cart a sequence of addToCart and updateCartItem requests that run one
\* after the other leaves, each add for a quantity the stock covers
Add(product, variant, quantity) ==
  [Idle EXCEPT !.op = "addToCart", !.product = product, !.variant = variant,
               !.quantity = quantity]

SaveForLater(itemId) ==
  [Idle EXCEPT !.op = "updateCartItem", !.item = itemId, !.sfl = "true"]

RECURSIVE CartAfter(_)
CartAfter(adds) ==
  IF adds = <<>> THEN NoCart
  ELSE LET db == CartAfter(SubSeq(adds, 1, Len(adds) - 1))
           a == adds[Len(adds)]
       IN IF a.op = "addToCart"
          THEN AddSavedCart(db, [a EXCEPT !.cart = db,
                 !.index = ExistingItemIndex(db.items, a.product, a.variant)])
          ELSE UpdateSavedCart(db, [a EXCEPT !.cart = db,
                 !.index = ItemIndex(db.items, a.item)])

\* the cart two addToCart requests leave that both read the cart of one item
\* before either saved: both items are pushed, the totals are those of the
\* request that saved last
RacedCart ==
  LET read == CartAfter(<<Add("P", NoVariant, 1)>>)
      first == [Add("Q", NoVariant, 1) EXCEPT !.cart = read]
      second == [Add("P", "v1", 1) EXCEPT !.cart = read]
  IN AddSavedCart(AddSavedCart(read, first), second)

UserAdds ==
  { <<>>,
    <<Add("P", NoVariant, InitStock), Add("Q", NoVariant, 1)>>,
    <<Add("P", NoVariant, 1), Add("P", "v1", InitStock)>>,
    <<Add("P", NoVariant, 1), Add("Q", NoVariant, InitStock), Add("Q", NoVariant, 1)>> }

\* carts with items saved for later: the only item, and one of two
SavedAdds ==
  { <<Add("P", NoVariant, 1), SaveForLater(1)>>,
    <<Add("P", NoVariant, 1), Add("Q", NoVariant, 1), SaveForLater(2)>> }

GuestAdds ==
  { <<Add("P", NoVariant, InitStock)>> }

\* two carts that each ask for the whole stock of P
RaceAdds ==
  { <<Add("P", NoVariant, InitStock), Add("Q", NoVariant, 1)>> }

CartsAfter(adds) == {CartAfter(a) : a \in adds}

InitWith(userCarts, guestCarts) ==
  /\ catalog = Products
  /\ stock = [p \in Products |-> InitStock]
  /\ \E uc \in userCarts, gc \in guestCarts :
       carts = [k \in CartKeys |-> IF k = "alice" THEN uc ELSE gc]
  /\ orders = <<>>
  /\ req = [s \in Slots |-> Idle]
  /\ faults = 0
  /\ last = NoLast

Init == InitWith(CartsAfter(RaceAdds), CartsAfter(GuestAdds))
SeqInit == InitWith(CartsAfter(UserAdds), CartsAfter(GuestAdds))
CheckoutInit ==
  InitWith(CartsAfter(SavedAdds) \cup {RacedCart}, CartsAfter(GuestAdds))

\* the steps of the requests handled in the slots S, with the callers C of
\* createOrder, the requesters U of cancelOrder and the statuses St and
\* notes N of updateOrderStatus
NextOn(S, C, U, St, N) ==
  \/ \E s \in S, c \in C : CreateOrder(s, c)
  \/ \E s \in S : ValidateStock(s)
  \/ \E s \in S : SaveOrder(s)
  \/ \E s \in S : DecrementStock(s)
  \/ \E s \in S : ClearCartSave(s)
  \/ \E s \in S, oid \in 0..Len(orders), st \in St, n \in N :
       UpdateOrderStatus(s, oid, st, n)
  \/ \E s \in S : UpdateSave(s)
  \/ \E s \in S, u \in U, oid \in 0..Len(orders), n \in Notes :
       CancelOrder(s, u, oid, n)
  \/ \E s \in S : CancelSave(s)
  \/ \E s \in S : RestoreStock(s)
  \/ \E s \in S : WriteFails(s)

\* requests are handled concurrently
RaceCallers == {c \in Callers : CartKey(c) # NoKey}
RaceUsers == {"alice"}
\* the authenticated shopper
CartCallers == {c \in Callers : c.user = "alice"}
RaceStatuses == {"pending", "shipped"}
Next == NextOn(Slots, RaceCallers, RaceUsers, RaceStatuses, Notes)
Spec == Init /\ [][Next]_vars

\* one request at a time, and products may be deleted in between
SeqNext ==
  \/ NextOn({1}, Callers, Users, Statuses, Notes)
  \/ \E p \in Products : DeleteProduct(p)
SeqSpec == SeqInit /\ [][SeqNext]_vars

\* one request at a time, updateOrderStatus with and without a note
StatusNext ==
  \/ NextOn({1}, CartCallers, RaceUsers, Statuses, GivenNotes)
  \/ \E p \in Products : DeleteProduct(p)
StatusSpec == Init /\ [][StatusNext]_vars

\* the cart handlers, handled concurrently, on the cart of one shopper
AddQuantities == {1, InitStock + 1}
\* {quantity} of updateCartItem: absent, or a number
QuantityInputs ==
  {[setq |-> FALSE, quantity |-> 0]}
    \cup {[setq |-> TRUE, quantity |-> q] : q \in {0, InitStock, InitStock + 1}}
ItemIds == 0..MaxCartWrites

CartInit ==
  InitWith(CartsAfter({<<>>, <<Add("P", NoVariant, 1)>>}), {NoCart})

CartNext ==
  \/ \E s \in Slots, c \in CartCallers, p \in Products, q \in AddQuantities :
       AddToCart(s, c, p, NoVariant, q)
  \/ \E s \in Slots : AddFindCart(s)
  \/ \E s \in Slots : AddSaveCart(s)
  \/ \E s \in Slots, c \in CartCallers, id \in ItemIds, q \in QuantityInputs,
          f \in Flags :
       UpdateCartItem(s, c, id, q.setq, q.quantity, f)
  \/ \E s \in Slots : UpdateFindProduct(s)
  \/ \E s \in Slots : UpdateSaveCart(s)
  \/ \E s \in Slots, c \in CartCallers, id \in ItemIds : RemoveFromCart(s, c, id)
  \/ \E s \in Slots : RemoveSaveCart(s)
  \/ \E s \in Slots, c \in CartCallers : ClearCart(s, c)
  \/ \E s \in Slots : ClearSave(s)
  \/ \E s \in Slots : WriteFails(s)

CartSpec == CartInit /\ [][CartNext]_vars

\* one request at a time, on carts that hold items saved for later or that
\* two concurrent addToCart requests have written
CheckoutNext ==
  \/ NextOn({1}, Callers, RaceUsers, RaceStatuses, Notes)
  \/ \E p \in Products : DeleteProduct(p)
CheckoutSpec == CheckoutInit /\ [][CheckoutNext]_vars

\* ------------------------------------------------------------- properties
\* `last` describes the request that answered in the last step; last.pre is the
\* database as it was when that request started, when it ran alone
Answered(op) == last.op = op /\ last.pre.ok
PreCart == last.pre.carts[last.key]
HasOrder == last.oid \in 1..Len(last.pre.orders)
PreOrder == last.pre.orders[last.oid]
Unchanged ==
  /\ stock = last.pre.stock
  /\ catalog = last.pre.catalog
  /\ orders = last.pre.orders
  /\ carts = last.pre.carts

\* C1: the stock of every product is at least 0 in every reachable state,
\* whatever the interleaving of the createOrder and cancelOrder requests
C1_StockNeverNegative == \A p \in catalog : stock[p] >= 0

\* C2: a createOrder that runs alone, without a persistence failure, on a cart
\* whose every line asks for no more than the product's stock answers Created,
\* leaves every stock at its value before minus the quantity ordered of that
\* product, and leaves the cart with no items, no coupons and all totals 0
C2_CreateOrderDecrementsAndClears ==
  ( /\ Answered("createOrder") /\ ~last.faulted
    /\ last.key \in CartKeys
    /\ PreCart.exists /\ Len(PreCart.items) > 0
    /\ \A k \in 1..Len(PreCart.items) :
         /\ PreCart.items[k].product \in last.pre.catalog
         /\ last.pre.stock[PreCart.items[k].product] >= PreCart.items[k].quantity )
  => /\ last.result = "Created"
     /\ \A p \in Products : stock[p] = last.pre.stock[p] - QtyOf(PreCart.items, p)
     /\ Len(orders) = Len(last.pre.orders) + 1
     /\ carts[last.key].items = <<>>
     /\ carts[last.key].appliedCoupons = <<>>
     /\ carts[last.key].subtotal = 0
     /\ carts[last.key].discountTotal = 0
     /\ carts[last.key].taxTotal = 0
     /\ carts[last.key].shippingTotal = 0
     /\ carts[last.key].grandTotal = 0

\* a cart of two products was ordered, P down to 0 and Q down by one
C2_Witness ==
  /\ Answered("createOrder") /\ last.result = "Created"
  /\ Len(PreCart.items) = 2 /\ PreCart.subtotal > 0
  /\ stock["P"] = 0 /\ last.pre.stock["P"] = InitStock
  /\ stock["Q"] = last.pre.stock["Q"] - 1

\* C3: a createOrder that runs alone on a cart with a line whose quantity
\* exceeds the product's stock, or whose product is gone, answers
\* InsufficientStock and changes no stock, no order and no cart
C3_InsufficientStockChangesNothing ==
  ( /\ Answered("createOrder")
    /\ last.key \in CartKeys
    /\ PreCart.exists /\ Len(PreCart.items) > 0
    /\ \E k \in 1..Len(PreCart.items) :
         \/ PreCart.items[k].product \notin last.pre.catalog
         \/ last.pre.stock[PreCart.items[k].product] < PreCart.items[k].quantity )
  => /\ last.result = "InsufficientStock"
     /\ Unchanged

\* the first line had the stock, the second asked for more than there was
C3_Witness ==
  /\ Answered("createOrder") /\ last.result = "InsufficientStock"
  /\ Len(PreCart.items) = 2
  /\ PreCart.items[1].product \in last.pre.catalog
  /\ last.pre.stock[PreCart.items[1].product] >= PreCart.items[1].quantity
  /\ PreCart.items[2].product \in last.pre.catalog
  /\ last.pre.stock[PreCart.items[2].product] < PreCart.items[2].quantity

\* C4: a createOrder in which a step after the stock check fails leaves no
\* order persisted, no stock decremented and the cart untouched
C4_FailedCreateOrderRollsBack ==
  (Answered("createOrder") /\ last.faulted) => Unchanged

\* C5: a cancelOrder that runs alone, without a persistence failure, requested
\* by the owner or an admin on a pending or processing order answers
\* Cancelled, sets the status to cancelled, appends one history entry of
\* status cancelled and adds to every stock the quantity ordered of that
\* product
C5_CancelRestoresStock ==
  ( /\ Answered("cancelOrder") /\ ~last.faulted /\ HasOrder
    /\ (last.user = PreOrder.user \/ Role(last.user) = "admin")
    /\ PreOrder.status \in {"pending", "processing"} )
  => /\ last.result = "Cancelled"
     /\ orders[last.oid].status = "cancelled"
     /\ Len(orders[last.oid].statusHistory) = Len(PreOrder.statusHistory) + 1
     /\ IsPrefix(PreOrder.statusHistory, orders[last.oid].statusHistory)
     /\ orders[last.oid].statusHistory[Len(orders[last.oid].statusHistory)].status
          = "cancelled"
     /\ \A p \in catalog : stock[p] = last.pre.stock[p] + QtyOf(PreOrder.items, p)
     /\ \A o \in 1..Len(orders) : o # last.oid => orders[o] = last.pre.orders[o]
     /\ Len(orders) = Len(last.pre.orders)

\* the owner cancelled a processing order of two lines
C5_Witness ==
  /\ Answered("cancelOrder") /\ last.result = "Cancelled" /\ HasOrder
  /\ last.user = PreOrder.user
  /\ PreOrder.status = "processing"
  /\ Len(PreOrder.items) = 2
  /\ stock["P"] > last.pre.stock["P"]

\* C6: a cancelOrder on an order whose latest status change is a completed
\* cancelOrder, requested by someone who passes the ownership check, answers
\* InvalidTransition and changes no stock, no status and no history
C6_SecondCancelRejected ==
  ( /\ Answered("cancelOrder") /\ HasOrder
    /\ PreOrder.writer = "cancelOrder"
    /\ ~NotAuthorized(last.user, PreOrder) )
  => /\ last.result = "InvalidTransition"
     /\ Unchanged

\* the first cancelOrder had restored the stock, the second was rejected
C6_Witness ==
  /\ Answered("cancelOrder") /\ HasOrder
  /\ PreOrder.writer = "cancelOrder"
  /\ last.result = "InvalidTransition"
  /\ \E p \in catalog : QtyOf(PreOrder.items, p) > 0 /\ stock[p] = InitStock

\* C7: a cancelOrder on an order whose status is neither pending nor
\* processing, requested by someone who passes the ownership check, answers
\* InvalidTransition and changes no status, no history and no stock
C7_NotCancellableRejected ==
  ( /\ Answered("cancelOrder") /\ HasOrder
    /\ PreOrder.status \notin {"pending", "processing"}
    /\ ~NotAuthorized(last.user, PreOrder) )
  => /\ last.result = "InvalidTransition"
     /\ Unchanged

\* the owner asked to cancel a shipped order
C7_Witness ==
  /\ Answered("cancelOrder") /\ HasOrder
  /\ PreOrder.status = "shipped"
  /\ last.user = PreOrder.user
  /\ last.result = "InvalidTransition"

\* C8: an updateOrderStatus on a cancelled order answers InvalidTransition and
\* leaves the status and the history as they were
C8_CancelledIsTerminal ==
  ( /\ Answered("updateOrderStatus") /\ HasOrder
    /\ PreOrder.status = "cancelled" )
  => /\ last.result = "InvalidTransition"
     /\ orders = last.pre.orders

\* C9: the status of every order is the status of the last entry of its
\* history, the history starts with {pending, "Order created"}, and no step
\* changes a history other than by appending to it
HistoryMatchesStatus ==
  \A o \in 1..Len(orders) :
    /\ Len(orders[o].statusHistory) >= 1
    /\ orders[o].statusHistory[1] = [status |-> "pending", note |-> "Order created"]
    /\ orders[o].status = orders[o].statusHistory[Len(orders[o].statusHistory)].status

HistoryGrows ==
  /\ Len(orders) <= Len(orders')
  /\ \A o \in 1..Len(orders) :
       IsPrefix(orders[o].statusHistory, orders'[o].statusHistory)

C9_HistoryAppendOnly == [](HistoryMatchesStatus) /\ [][HistoryGrows]_vars

\* C10: a cancelOrder requested by someone who is neither the owning user of
\* the order nor an admin answers Forbidden and changes nothing
C10_OnlyOwnerOrAdminCancels ==
  ( /\ last.op = "cancelOrder" /\ ~last.faulted
    /\ last.oid \in 1..Len(orders)
    /\ last.user # orders[last.oid].user
    /\ Role(last.user) # "admin" )
  => /\ last.result = "Forbidden"
     /\ last.pre.ok => Unchanged

\* the cart lines that take part in checkout, and the order a createOrder
\* that ran alone has added
IsActive(item) == ~item.savedForLater
ActiveItems(items) == SelectSeq(items, IsActive)
CreatedOrder == orders[Len(last.pre.orders) + 1]

\* C11: a createOrder that runs alone, without a persistence failure, for a
\* caller whose identity resolves to no cart, or to a cart without a line that
\* is not saved for later, answers CartEmpty and changes no order, no stock
\* and no cart
C11_EmptyCartRejected ==
  ( /\ Answered("createOrder") /\ ~last.faulted
    /\ last.key \in CartKeys
    /\ (~PreCart.exists \/ ActiveItems(PreCart.items) = <<>>) )
  => /\ last.result = "CartEmpty"
     /\ Unchanged

\* C12: after every cart mutation that completed (addToCart, updateCartItem,
\* removeFromCart, clearCart, the clearing of createOrder) the cached totals
\* of the cart are the totals computed from its items and coupons
Mutated ==
  \/ last.op = "addToCart" /\ last.result = "Added"
  \/ last.op = "updateCartItem" /\ last.result = "Updated"
  \/ last.op = "removeFromCart" /\ last.result = "Removed"
  \/ last.op = "clearCart" /\ last.result = "Cleared"
  \/ last.op = "createOrder" /\ last.result = "Created"

C12_TotalsMatchItems ==
  Mutated => carts[last.key] = RecalculateTotals(carts[last.key])

\* C13: the order a createOrder that runs alone, without a persistence
\* failure, creates has one line for every cart line that is not saved for
\* later and for no other, every stock is down by the quantity of those lines
\* only, and the order's line subtotals add up to the order's subtotal
C13_SavedForLaterExcluded ==
  ( /\ Answered("createOrder") /\ ~last.faulted
    /\ last.result = "Created" )
  => /\ CreatedOrder.items = OrderItems(ActiveItems(PreCart.items))
     /\ \A p \in Products :
          stock[p] = last.pre.stock[p] - QtyOf(ActiveItems(PreCart.items), p)
     /\ SumSeq([k \in 1..Len(CreatedOrder.items) |-> CreatedOrder.items[k].subtotal])
          = CreatedOrder.subtotal

\* no request is in progress
Quiescent == \A s \in Slots : req[s].op = "idle"

\* the entries cancelOrder has appended to a status history
CancelEntries(h) ==
  {k \in 1..Len(h) : h[k] = [status |-> "cancelled", note |-> CancelNote(NoNote)]}

\* total quantity of product p over the orders os that satisfy Which
QtyOver(os, p, Which(_)) ==
  SumSeq([o \in 1..Len(os) |-> IF Which(os[o]) THEN QtyOf(os[o].items, p) ELSE 0])

AnyOrder(o) == TRUE
WasCancelled(o) == CancelEntries(o.statusHistory) # {}
\* the order was created and, since, only cancelOrder has written it
OnlyCancelled(o) ==
  CancelEntries(o.statusHistory) = 2..Len(o.statusHistory)

\* C14: when no request is in progress, no write has failed and the orders
\* have been written by createOrder and cancelOrder only, every stock is the
\* initial stock minus the quantities ordered plus, once, the quantities of
\* the orders that cancelOrder has cancelled, however many cancelOrder
\* requests have run on the same order at the same time
C14_ConcurrentCancelsRestoreOnce ==
  ( /\ Quiescent /\ faults = 0
    /\ \A o \in 1..Len(orders) : OnlyCancelled(orders[o]) )
  => \A p \in Products :
       stock[p] = InitStock - QtyOver(orders, p, AnyOrder)
                    + QtyOver(orders, p, WasCancelled)

\* C15: a cancelOrder that runs alone on a pending or processing order and
\* ends with the order persisted as cancelled has added to every stock the
\* quantity ordered of that product, or it leaves the order in a status from
\* which a retried cancelOrder is accepted
C15_CancelledOrderIsRestored ==
  ( /\ Answered("cancelOrder") /\ HasOrder
    /\ Cancellable(PreOrder)
    /\ orders[last.oid].status = "cancelled" )
  => \/ \A p \in catalog : stock[p] = last.pre.stock[p] + QtyOf(PreOrder.items, p)
     \/ Cancellable(orders[last.oid])

\* C16: a createOrder that runs alone and has decremented a stock answers
\* Created and leaves the cart with no items, no coupons and all totals 0
C16_DecrementedOrderCompletes ==
  ( /\ Answered("createOrder")
    /\ \E p \in Products : stock[p] < last.pre.stock[p] )
  => /\ last.result = "Created"
     /\ carts[last.key].items = <<>>
     /\ carts[last.key].appliedCoupons = <<>>
     /\ ClearedCart(carts[last.key]) = carts[last.key]

\* C17: an updateOrderStatus that runs alone, without a persistence failure,
\* on an order that is not cancelled answers Updated, appends the one entry
\* {the new status, the note given or "Status updated to <new status>"}, sets
\* the status to the new status and changes nothing else: no stock, no cart,
\* no line item, no total, no other order; and no step of any request changes
\* the line items of an order that exists
UpdateKeepsTheRest ==
  ( /\ Answered("updateOrderStatus") /\ ~last.faulted /\ HasOrder
    /\ PreOrder.status # "cancelled" )
  => /\ last.result = "Updated"
     /\ orders[last.oid] =
          [PreOrder EXCEPT
             !.status = last.status,
             !.statusHistory =
                Append(@, [status |-> last.status,
                           note |-> IF last.note = NoNote
                                    THEN "Status updated to " \o last.status
                                    ELSE last.note]),
             !.writer = "updateOrderStatus"]
     /\ \A o \in 1..Len(orders) : o # last.oid => orders[o] = last.pre.orders[o]
     /\ Len(orders) = Len(last.pre.orders)
     /\ stock = last.pre.stock
     /\ catalog = last.pre.catalog
     /\ carts = last.pre.carts

ItemsKept ==
  /\ Len(orders) <= Len(orders')
  /\ \A o \in 1..Len(orders) : orders'[o].items = orders[o].items

C17_UpdateStatusFrame == [](UpdateKeepsTheRest) /\ [][ItemsKept]_vars

\* a pending order whose stock is decremented was set to cancelled with a
\* note, and the stock stayed as it was
C17_Witness ==
  /\ Answered("updateOrderStatus") /\ last.result = "Updated" /\ HasOrder
  /\ PreOrder.status = "pending"
  /\ last.status = "cancelled" /\ last.note # NoNote
  /\ \E p \in catalog : QtyOf(PreOrder.items, p) > 0 /\ stock[p] < InitStock

\* C18: the order a createOrder that runs alone has saved carries the five
\* totals the cart had cached when the request read it, whatever the items
\* add up to, has status pending and a history of the one entry
\* {pending, "Order created"}
C18_TotalsCopiedFromCart ==
  ( /\ Answered("createOrder")
    /\ Len(orders) = Len(last.pre.orders) + 1 )
  => /\ CreatedOrder.subtotal = PreCart.subtotal
     /\ CreatedOrder.discountTotal = PreCart.discountTotal
     /\ CreatedOrder.taxTotal = PreCart.taxTotal
     /\ CreatedOrder.shippingTotal = PreCart.shippingTotal
     /\ CreatedOrder.grandTotal = PreCart.grandTotal
     /\ CreatedOrder.status = "pending"
     /\ CreatedOrder.statusHistory = <<[status |-> "pending", note |-> "Order created"]>>

\* an order was created from a cart whose cached subtotal is not the sum over
\* its items
C18_Witness ==
  /\ Answered("createOrder") /\ last.result = "Created"
  /\ PreCart.subtotal # Subtotal(PreCart.items)
  /\ CreatedOrder.subtotal = PreCart.subtotal
  /\ Len(CreatedOrder.items) = Len(PreCart.items)

\* C19: when no request is in progress, no write has failed and no order has
\* been set to cancelled by updateOrderStatus, for every product the stock
\* plus the quantities of the product over the orders that are not cancelled
\* is the initial stock, for every product that exists
NotCancelled(o) == o.status # "cancelled"
CancelledByCancelOrderOnly(o) ==
  \A k \in 1..Len(o.statusHistory) :
    o.statusHistory[k].status = "cancelled" => k \in CancelEntries(o.statusHistory)

C19_StockConservation ==
  ( /\ Quiescent /\ faults = 0
    /\ \A o \in 1..Len(orders) : CancelledByCancelOrderOnly(orders[o]) )
  => \A p \in catalog : stock[p] + QtyOver(orders, p, NotCancelled) = InitStock

\* C20: a createOrder that runs alone, without a persistence failure, and
\* answers Created had, for every product, a stock of at least the total
\* quantity of the product over all lines of the cart, and leaves no stock
\* below 0
C20_TotalQuantityWithinStock ==
  ( /\ Answered("createOrder") /\ ~last.faulted
    /\ last.result = "Created" )
  => \A p \in last.pre.catalog :
       /\ QtyOf(PreCart.items, p) <= last.pre.stock[p]
       /\ stock[p] >= 0

\* the carts of the initial state of the concurrent specification; no request
\* of that specification adds to a cart
FirstCart(k) ==
  IF k = "alice" THEN CartAfter(CHOOSE a \in RaceAdds : TRUE)
  ELSE CartAfter(CHOOSE a \in GuestAdds : TRUE)

\* C21: however the createOrder requests that read the same cart interleave,
\* no two orders are created from the content of one cart, and every stock is
\* down by at most the quantities of each cart, once
C21_OneOrderPerCart ==
  /\ \A o1, o2 \in 1..Len(orders) :
       (orders[o1].user = orders[o2].user /\ orders[o1].items = orders[o2].items)
         => o1 = o2
  /\ \A p \in Products :
       stock[p] >= InitStock - SumSeq([k \in 1..2 |->
                       QtyOf(FirstCart(IF k = 1 THEN "alice" ELSE "s1").items, p)])

\* the lines of the cart the last request has added or given another quantity
AffectedLines ==
  LET items == carts[last.key].items
  IN {k \in 1..Len(items) :
        LET j == ItemIndex(PreCart.items, items[k].id)
        IN j = 0 \/ PreCart.items[j].quantity # items[k].quantity}

\* C22: after a successful addToCart or updateCartItem the quantity of the
\* line the request has added or changed is at most the stock of its product
\* (no stock changes while the cart handlers run)
C22_LineQuantityWithinStock ==
  (last.op \in {"addToCart", "updateCartItem"} /\ last.pre.ok
     /\ last.result \in {"Added", "Updated"})
    => \A k \in AffectedLines :
         LET item == carts[last.key].items[k]
         IN item.quantity <= stock[item.product]

\* C23: updateCartItem with a quantity <= 0 for an item of the cart, alone and
\* with every write succeeding, answers with success and the cart is the cart
\* before without that item, every other item as it was, whatever
\* savedForLater value the request carries
C23_NonPositiveQuantityRemoves ==
  (Answered("updateCartItem") /\ ~last.faulted /\ last.setq
     /\ last.quantity <= 0 /\ ItemIndex(PreCart.items, last.item) > 0)
    => /\ last.result = "Updated"
       /\ carts[last.key].items = WithoutItem(PreCart.items, last.item)

====
